---- MODULE Spec2Model ----
(***************************************************************************)
(* Repository layer of nest-auth-mongoose: BaseRepository,                 *)
(* SoftDeletableRepository and AuditableRepository over one collection.    *)
(* The collection is the state; every repository method that writes is one *)
(* atomic store call and therefore one action.  Reads are operators over   *)
(* the collection.  findAllPaginated issues two store reads and is         *)
(* modelled as a small process (variable pag).                             *)
(***************************************************************************)
EXTENDS Integers, Sequences, FiniteSets

\* ------------------------------------------------------------------ bounds
MaxRecords == 2      \* ids the store hands out: 1..MaxRecords
MaxClock   == 2      \* values of new Date(): 1..MaxClock
MaxLimit   == 2      \* largest page size requested
MaxPage    == 2      \* largest page number requested
UpdRecords == 1      \* records created in the specification of the audited updates
PagRecords == 2      \* records created in the specification of the paginated reads
MaxCallers == 2      \* callers racing on one findOneAndUpdate

Ids    == 1..MaxRecords
Cats   == {"a", "b"}          \* values of the caller's own field
Actors == {"u1", "u2"}        \* actor identifiers (createdBy, updatedBy)
DelActors == {"u1"}           \* actor identifiers passed as deletedBy

\* ------------------------------------------------------- value encodings
NullDate == 0                 \* deletedAt: null
NullStr  == "null"            \* deletedBy / createdBy / updatedBy: null
NoKey    == "-"               \* the key is not present in a payload
NoKeyAt  == -1                \* the deletedAt key is not present in a payload
AnyId    == 0                 \* a filter without the _id key
AnyCat   == "*"               \* a filter without the caller's field

\* A document of the collection.  NoDoc stands for "no document": an id
\* that holds nothing in the store, and the null result of a single read.
NoDoc ==
  [_id |-> 0, cat |-> NoKey, deletedAt |-> NullDate, deletedBy |-> NullStr,
   createdBy |-> NullStr, updatedBy |-> NullStr, updatedAt |-> NullDate,
   secret |-> NoKey]

VARIABLES
  store,     \* [Ids -> document or NoDoc]: the collection
  nextId,    \* next identity the store assigns (identities are never reused)
  clock,     \* the time new Date() returns
  last,      \* the last completed write: operation, id argument, result
  pag,       \* the findAllPaginated call in flight (or its result)
  race,      \* the concurrent findOneAndUpdate calls in flight and resolved
  reg        \* the concurrent UserService.createUser calls and their outcomes

vars == <<store, nextId, clock, last, pag, race, reg>>

\* -------------------------------------------------------------- filters
\* FilterQuery: a conjunction of per-key conditions; a key that is not
\* present is a wildcard.  deletedAt conditions: "any" (key absent),
\* "null" ({deletedAt: null}), "ne" ({deletedAt: {$ne: null}}),
\* "lt" ({deletedAt: {$lt: t}}).
DelAny  == [k |-> "any",  t |-> 0]
DelNull == [k |-> "null", t |-> 0]
DelNe   == [k |-> "ne",   t |-> 0]
DelLt(t) == [k |-> "lt", t |-> t]

EmptyFilter == [_id |-> AnyId, cat |-> AnyCat, deletedAt |-> DelAny]

\* every filter a caller may pass
Filters ==
  [_id : {AnyId} \cup Ids, cat : {AnyCat} \cup Cats,
   deletedAt : {DelAny, DelNull, DelNe} \cup {DelLt(t) : t \in 2..MaxClock}]

\* the filters the default reads are exercised with: a condition on the id
\* or on the caller field, with every deletedAt condition
ReadFilters == {f \in Filters : f._id = AnyId \/ f.cat = AnyCat}

\* the filters the write operations are exercised with
WriteFilters ==
  {EmptyFilter} \cup {[EmptyFilter EXCEPT !.cat = c] : c \in Cats}
                \cup {[EmptyFilter EXCEPT !.deletedAt = DelNe]}

MatchDel(at, c) ==
  CASE c.k = "any"  -> TRUE
    [] c.k = "null" -> at = NullDate
    [] c.k = "ne"   -> at # NullDate
    [] c.k = "lt"   -> at # NullDate /\ at < c.t

Matches(d, f) ==
  /\ d # NoDoc
  /\ f._id = AnyId \/ d._id = f._id
  /\ f.cat = AnyCat \/ d.cat = f.cat
  /\ MatchDel(d.deletedAt, f.deletedAt)

MatchIds(st, f) == {i \in Ids : Matches(st[i], f)}

Min(S) == CHOOSE x \in S : \A y \in S : x <= y
Max(S) == CHOOSE x \in S : \A y \in S : x >= y

RECURSIVE AscSeq(_)
AscSeq(S) ==
  IF S = {} THEN << >> ELSE LET m == Min(S) IN <<m>> \o AscSeq(S \ {m})

RECURSIVE DescSeq(_)
DescSeq(S) ==
  IF S = {} THEN << >> ELSE LET m == Max(S) IN <<m>> \o DescSeq(S \ {m})

\* a query result leaves out the fields the schema declares select: false
\* (the password of a User); secret stands for such a field
Select(d) == [d EXCEPT !.secret = NoKey]

Docs(st, ids) == [k \in 1..Len(ids) |-> Select(st[ids[k]])]
Range(s) == {s[k] : k \in 1..Len(s)}

\* ----------------------------------------------------- store primitives
\* QueryOptions of a find: sort ("natural", or "createdAt_desc" /
\* "createdAt_asc"; creation order is identity order), skip, limit (0: none)
NoOptions == [sort |-> "natural", skip |-> 0, limit |-> 0]

Window(s, skip, limit) ==
  LET hi == IF limit = 0 THEN Len(s)
            ELSE IF skip + limit < Len(s) THEN skip + limit ELSE Len(s)
  IN  IF skip >= Len(s) THEN << >> ELSE SubSeq(s, skip + 1, hi)

\* model.find(filter, projection, options).exec()
model_find(st, f, o) ==
  LET ids == IF o.sort = "createdAt_desc" THEN DescSeq(MatchIds(st, f))
             ELSE AscSeq(MatchIds(st, f))
  IN  Window(Docs(st, ids), o.skip, o.limit)

\* model.findOne(filter).exec(): first match in natural order, or null
model_findOne(st, f) ==
  IF MatchIds(st, f) = {} THEN NoDoc ELSE Select(st[Min(MatchIds(st, f))])

\* model.countDocuments(filter).exec()
model_countDocuments(st, f) == Cardinality(MatchIds(st, f))

\* ------------------------------------------------------- update payloads
\* UpdateQuery: plain keys, which the store applies as $set.  NoKey /
\* NoKeyAt mark a key the payload does not carry.
NoUpdate ==
  [cat |-> NoKey, deletedAt |-> NoKeyAt, deletedBy |-> NoKey, updatedBy |-> NoKey]

\* the payload callers pass to the generic update methods: a $set of the
\* caller field, which changes a record created with the other value and
\* leaves a record that already has the value as it is
Updates == {[NoUpdate EXCEPT !.cat = "b"]}

\* the schemas are declared with timestamps: true, so every update also
\* sets updatedAt to the current time
ApplyUpdate(d, u) ==
  [d EXCEPT !.updatedAt = clock,
            !.createdBy = IF "createdBy" \in DOMAIN u THEN u.createdBy ELSE @,
            !.cat       = IF u.cat = NoKey THEN @ ELSE u.cat,
            !.deletedAt = IF u.deletedAt = NoKeyAt THEN @ ELSE u.deletedAt,
            !.deletedBy = IF u.deletedBy = NoKey THEN @ ELSE u.deletedBy,
            !.updatedBy = IF u.updatedBy = NoKey THEN @ ELSE u.updatedBy]

\* results of the methods: the collection after the call and what the call
\* returns (ret: a document or NoDoc for null; n: a count)
Res(st, ret, n) == [st |-> st, ret |-> ret, n |-> n]

\* ------------------------------------------------------- BaseRepository
\* new this.model(data).save(): the store assigns the identity; schema
\* defaults fill deletedAt, deletedBy, createdBy, updatedBy with null
\* slip: the new document is stored soft-deleted
NewDoc_deleted(id, data) ==
  [_id |-> id, cat |-> data.cat, deletedAt |-> clock, deletedBy |-> NullStr,
   createdBy |-> IF data.createdBy = NoKey THEN NullStr ELSE data.createdBy,
   updatedBy |-> NullStr, updatedAt |-> clock,
   secret |-> IF "secret" \in DOMAIN data THEN data.secret ELSE NoKey]

NewDoc(id, data) ==
  [_id |-> id, cat |-> data.cat, deletedAt |-> NullDate, deletedBy |-> NullStr,
   createdBy |-> IF data.createdBy = NoKey THEN NullStr ELSE data.createdBy,
   updatedBy |-> NullStr, updatedAt |-> clock,
   secret |-> IF "secret" \in DOMAIN data THEN data.secret ELSE NoKey]

create(st, id, data) ==
  Res([st EXCEPT ![id] = NewDoc(id, data)], NewDoc(id, data), 1)

\* insertMany: one document per element, identities in input order
createMany(st, id, data) ==
  [st   |-> [i \in Ids |-> IF i >= id /\ i < id + Len(data)
                           THEN NewDoc(i, data[i - id + 1]) ELSE st[i]],
   ret  |-> NoDoc, n |-> Len(data),
   docs |-> [k \in 1..Len(data) |-> NewDoc(id + k - 1, data[k])]]

super_findById(st, id) == Select(st[id])

super_findOne(st, f) == model_findOne(st, f)

super_findAll(st, f, o) == model_find(st, f, o)

\* slip: the update is an upsert, a missing id is inserted
findByIdAndUpdate_upsert(st, id, u) ==
  LET d == IF st[id] = NoDoc
           THEN ApplyUpdate(NewDoc(id, [cat |-> "a", createdBy |-> NoKey]), u)
           ELSE ApplyUpdate(st[id], u)
  IN  Res([st EXCEPT ![id] = d], d, 1)

\* the options bag of a find-and-update: the new flag, "true", "false" or
\* absent (NoKey)
OptionBags == [new : {NoKey, "true", "false"}]

NoUpdateOptions == [new |-> NoKey]

\* slip: the repository's defaults are left out of the options
Spread_noDefaults(defaults, options) == options

\* { ...defaults, ...options }: a key the caller's options carry replaces
\* the default
Spread(defaults, options) ==
  [k \in DOMAIN defaults |->
     IF options[k] = NoKey THEN defaults[k] ELSE options[k]]

\* the store's find-and-update: one atomic step that updates the document
\* and returns it as it is after the update when new is "true", as it was
\* before otherwise; null when there is no document
model_findAndUpdate(st, id, u, options) ==
  IF id \notin Ids \/ st[id] = NoDoc THEN Res(st, NoDoc, 0)
  ELSE Res([st EXCEPT ![id] = ApplyUpdate(@, u)],
           IF options.new = "true" THEN Select(ApplyUpdate(st[id], u))
                                   ELSE Select(st[id]),
           1)

\* findByIdAndUpdate(id, update, options)
findByIdAndUpdateOptions(st, id, u, options) ==
  model_findAndUpdate(st, id, u, Spread([new |-> "true"], options))

\* findOneAndUpdate(filter, update, options): the first match is updated
findOneAndUpdateOptions(st, f, u, options) ==
  model_findAndUpdate(st,
                      IF MatchIds(st, f) = {} THEN 0 ELSE Min(MatchIds(st, f)),
                      u, Spread([new |-> "true"], options))

\* findByIdAndUpdate(id, update): the document after the update, or null
\* when no document has this id
findByIdAndUpdate(st, id, u) == findByIdAndUpdateOptions(st, id, u, NoUpdateOptions)

findOneAndUpdate(st, f, u) == findOneAndUpdateOptions(st, f, u, NoUpdateOptions)

\* slip: the update is restricted to live documents
updateMany_liveOnly(st, f, u) ==
  LET g == [f EXCEPT !.deletedAt = DelNull]
  IN  Res([i \in Ids |-> IF Matches(st[i], g) THEN ApplyUpdate(st[i], u) ELSE st[i]],
          NoDoc,
          Cardinality({i \in MatchIds(st, g) : ApplyUpdate(st[i], u) # st[i]}))

\* slip: result.matchedCount is returned
updateMany_matched(st, f, u) ==
  Res([i \in Ids |-> IF Matches(st[i], f) THEN ApplyUpdate(st[i], u) ELSE st[i]],
      NoDoc, Cardinality(MatchIds(st, f)))

\* result.modifiedCount: the matched documents the update changed
updateMany(st, f, u) ==
  Res([i \in Ids |-> IF Matches(st[i], f) THEN ApplyUpdate(st[i], u) ELSE st[i]],
      NoDoc,
      Cardinality({i \in MatchIds(st, f) : ApplyUpdate(st[i], u) # st[i]}))

findByIdAndDelete(st, id) ==
  IF st[id] = NoDoc THEN Res(st, NoDoc, 0)
  ELSE Res([st EXCEPT ![id] = NoDoc], Select(st[id]), 1)

\* slip: the filter is not passed on, the first document is removed
findOneAndDelete_noFilter(st, f) ==
  IF MatchIds(st, EmptyFilter) = {} THEN Res(st, NoDoc, 0)
  ELSE LET id == Min(MatchIds(st, EmptyFilter))
       IN  Res([st EXCEPT ![id] = NoDoc], Select(st[id]), 1)

findOneAndDelete(st, f) ==
  IF MatchIds(st, f) = {} THEN Res(st, NoDoc, 0)
  ELSE LET id == Min(MatchIds(st, f))
       IN  Res([st EXCEPT ![id] = NoDoc], Select(st[id]), 1)

\* result.deletedCount
deleteMany(st, f) ==
  Res([i \in Ids |-> IF Matches(st[i], f) THEN NoDoc ELSE st[i]],
      NoDoc, Cardinality(MatchIds(st, f)))

super_count(st, f) == model_countDocuments(st, f)

\* countDocuments(filter).limit(1) > 0
super_exists(st, f) ==
  LET c == model_countDocuments(st, f)
  IN  (IF c > 1 THEN 1 ELSE c) > 0

\* ----------------------------------------------- SoftDeletableRepository
\* slip: { deletedAt: null, ...filter }, the caller's deletedAt condition wins
WithLive_callerWins(f) ==
  IF f.deletedAt = DelAny THEN [f EXCEPT !.deletedAt = DelNull] ELSE f

\* { ...filter, deletedAt: null }: the spread sets the deletedAt key,
\* replacing a deletedAt condition the caller's filter carries
WithLive(f) == [f EXCEPT !.deletedAt = DelNull]

\* slip: { ...filter, deletedAt: { $exists: true } }, which the null
\* default of a live record satisfies as well
WithDeletedOnly_exists(f) == [f EXCEPT !.deletedAt = DelAny]

\* { ...filter, deletedAt: { $ne: null } }
WithDeletedOnly(f) == [f EXCEPT !.deletedAt = DelNe]

\* slip: soft delete goes through a live-only lookup
softDelete_liveOnly(st, id, deletedBy, now) ==
  IF st[id].deletedAt # NullDate THEN Res(st, NoDoc, 0)
  ELSE findByIdAndUpdate(st, id,
         [NoUpdate EXCEPT !.deletedAt = now, !.deletedBy = deletedBy])

\* slip: soft delete removes the document
softDelete_hard(st, id, deletedBy, now) == findByIdAndDelete(st, id)

softDelete(st, id, deletedBy, now) ==
  findByIdAndUpdate(st, id,
    [NoUpdate EXCEPT !.deletedAt = now, !.deletedBy = deletedBy])

softDeleteMany(st, f, deletedBy, now) ==
  updateMany(st, f, [NoUpdate EXCEPT !.deletedAt = now, !.deletedBy = deletedBy])

\* slip: restore goes through a live-only lookup
restore_liveOnly(st, id) ==
  IF st[id].deletedAt # NullDate THEN Res(st, NoDoc, 0)
  ELSE findByIdAndUpdate(st, id,
         [NoUpdate EXCEPT !.deletedAt = NullDate, !.deletedBy = NullStr])

restore(st, id) ==
  findByIdAndUpdate(st, id,
    [NoUpdate EXCEPT !.deletedAt = NullDate, !.deletedBy = NullStr])

\* slip: only deletedAt is cleared
restoreMany_keepsActor(st, f) ==
  updateMany(st, f, [NoUpdate EXCEPT !.deletedAt = NullDate])

restoreMany(st, f) ==
  updateMany(st, f, [NoUpdate EXCEPT !.deletedAt = NullDate, !.deletedBy = NullStr])

\* slip: force delete goes through a live-only lookup
forceDelete_liveOnly(st, id) ==
  IF st[id].deletedAt # NullDate THEN Res(st, NoDoc, 0)
  ELSE findByIdAndDelete(st, id)

forceDelete(st, id) == findByIdAndDelete(st, id)

forceDeleteMany(st, f) == deleteMany(st, f)

findAllWithDeleted(st, f, o) == super_findAll(st, f, o)

findAllOnlyDeleted(st, f, o) == super_findAll(st, WithDeletedOnly(f), o)

findAll(st, f, o) == super_findAll(st, WithLive(f), o)

findOne(st, f) == super_findOne(st, WithLive(f))

\* slip: the inherited findById is not overridden
findById_unfiltered(st, id) == super_findById(st, id)

findById(st, id) ==
  super_findOne(st, [_id |-> id, cat |-> AnyCat, deletedAt |-> DelNull])

count(st, f) == super_count(st, WithLive(f))

countWithDeleted(st, f) == super_count(st, f)

countOnlyDeleted(st, f) == super_count(st, WithDeletedOnly(f))

\* slip: exists is not overridden, the inherited one answers
exists_inherited(st, f) == super_exists(st, f)

exists(st, f) == super_exists(st, WithLive(f))

existsWithDeleted(st, f) == super_exists(st, f)

\* -------------------------------------------------- AuditableRepository
\* createdBy / updatedBy arguments: an actor, or NoKey when not given
createWithAudit(st, id, data, createdBy) ==
  create(st, id, IF createdBy # NoKey THEN [data EXCEPT !.createdBy = createdBy]
                 ELSE data)

\* slip: only the first item of the batch is stamped
createManyWithAudit_firstOnly(st, id, data, createdBy) ==
  IF createdBy # NoKey
  THEN createMany(st, id,
         [k \in 1..Len(data) |->
            IF k = 1 THEN [data[k] EXCEPT !.createdBy = createdBy] ELSE data[k]])
  ELSE createMany(st, id, data)

createManyWithAudit(st, id, data, createdBy) ==
  IF createdBy # NoKey
  THEN createMany(st, id,
         [k \in 1..Len(data) |-> [data[k] EXCEPT !.createdBy = createdBy]])
  ELSE createMany(st, id, data)

\* slip: the actor is stamped as the creator as well
Enrich_createdBy(u, updatedBy) ==
  IF updatedBy # NoKey
  THEN [cat |-> u.cat, deletedAt |-> u.deletedAt, deletedBy |-> u.deletedBy,
        updatedBy |-> updatedBy, createdBy |-> updatedBy]
  ELSE u

Enrich(u, updatedBy) ==
  IF updatedBy # NoKey THEN [u EXCEPT !.updatedBy = updatedBy] ELSE u

findByIdAndUpdateWithAudit(st, id, u, updatedBy) ==
  findByIdAndUpdate(st, id, Enrich(u, updatedBy))

findOneAndUpdateWithAudit(st, f, u, updatedBy) ==
  findOneAndUpdate(st, f, Enrich(u, updatedBy))

updateManyWithAudit(st, f, u, updatedBy) ==
  updateMany(st, f, Enrich(u, updatedBy))

\* ------------------------------------------------------------ pagination
\* BaseRepository.findAllPaginated: skip = (page - 1) * limit, sort
\* defaults to { createdAt: -1 }; the two reads go through this.findAll and
\* this.count, which on a SoftDeletableRepository are the overriding methods
\* slip: skip counts the requested page in
QueryOptions_skipPage(page, limit, sort) ==
  [sort |-> IF sort = "none" THEN "createdAt_desc" ELSE sort,
   skip |-> page * limit, limit |-> limit]

QueryOptions(page, limit, sort) ==
  [sort |-> IF sort = "none" THEN "createdAt_desc" ELSE sort,
   skip |-> (page - 1) * limit, limit |-> limit]

PageData(st, f, page, limit, sort) == findAll(st, f, QueryOptions(page, limit, sort))

\* slip: the count is taken without the filter
PageTotal_unfiltered(st, f) == count(st, EmptyFilter)

PageTotal(st, f) == count(st, f)

\* slip: the quotient is truncated instead of rounded up
Ceil_floor(total, limit) == total \div limit

\* Math.ceil(total / limit), limit >= 1
Ceil(total, limit) == (total + limit - 1) \div limit

Meta(total, page, limit) ==
  [total |-> total, page |-> page, limit |-> limit,
   totalPages |-> Ceil(total, limit),
   hasNextPage |-> page < Ceil(total, limit),
   hasPrevPage |-> page > 1]

\* the filter each entry point hands to super.findAllPaginated
PaginatedFilter(mode, f) ==
  CASE mode = "live"        -> WithLive(f)
    [] mode = "withDeleted" -> f
    [] mode = "onlyDeleted" -> WithDeletedOnly(f)

PagFilters ==
  {EmptyFilter} \cup {[EmptyFilter EXCEPT !.cat = c] : c \in Cats}

\* dirty: a write changed the collection between the two reads
PagIdle ==
  [pc |-> "idle", mode |-> "live", caller |-> EmptyFilter, filter |-> EmptyFilter,
   page |-> 0, limit |-> 1, sort |-> "none", gotData |-> FALSE, gotTotal |-> FALSE,
   data |-> << >>, total |-> 0, dirty |-> FALSE, meta |-> Meta(0, 0, 1)]

\* ---------------------------------------------------------- services
\* the result of a paginated read when no write lands between its two reads
super_findAllPaginated(st, f, page, limit, sort) ==
  [data |-> PageData(st, f, page, limit, sort),
   meta |-> Meta(PageTotal(st, f), page, limit)]

findAllPaginated(st, f, page, limit, sort) ==
  super_findAllPaginated(st, PaginatedFilter("live", f), page, limit, sort)

findAllPaginatedWithDeleted(st, f, page, limit, sort) ==
  super_findAllPaginated(st, PaginatedFilter("withDeleted", f), page, limit, sort)

findAllPaginatedOnlyDeleted(st, f, page, limit, sort) ==
  super_findAllPaginated(st, PaginatedFilter("onlyDeleted", f), page, limit, sort)

\* the arguments of a service call: the ones the method takes are set, now
\* is the time of the call
NoArgs ==
  [id |-> 0, f |-> EmptyFilter, u |-> NoUpdate, by |-> NoKey, data |-> << >>,
   options |-> NoUpdateOptions, o |-> NoOptions, page |-> 1, limit |-> MaxLimit,
   sort |-> "none", now |-> 0]

\* each service method m calls the repository method of the same name with
\* the arguments a it was given and returns what that call returns
BaseService(m, st, a) ==
  CASE m = "create"            -> create(st, a.id, a.data[1])
    [] m = "createMany"        -> createMany(st, a.id, a.data)
    [] m = "findById"          -> findById(st, a.id)
    [] m = "findOne"           -> findOne(st, a.f)
    [] m = "findAll"           -> findAll(st, a.f, a.o)
    [] m = "findByIdAndUpdate" -> findByIdAndUpdateOptions(st, a.id, a.u, a.options)
    [] m = "findOneAndUpdate"  -> findOneAndUpdateOptions(st, a.f, a.u, a.options)
    [] m = "updateMany"        -> updateMany(st, a.f, a.u)
    [] m = "findByIdAndDelete" -> findByIdAndDelete(st, a.id)
    [] m = "findOneAndDelete"  -> findOneAndDelete(st, a.f)
    [] m = "deleteMany"        -> deleteMany(st, a.f)
    [] m = "count"             -> count(st, a.f)
    [] m = "exists"            -> exists(st, a.f)

SoftDeletableService(m, st, a) ==
  CASE m = "softDelete"         -> softDelete(st, a.id, a.by, a.now)
    [] m = "softDeleteMany"     -> softDeleteMany(st, a.f, a.by, a.now)
    [] m = "restore"            -> restore(st, a.id)
    [] m = "restoreMany"        -> restoreMany(st, a.f)
    [] m = "forceDelete"        -> forceDelete(st, a.id)
    [] m = "forceDeleteMany"    -> forceDeleteMany(st, a.f)
    [] m = "findAllWithDeleted" -> findAllWithDeleted(st, a.f, a.o)
    [] m = "findAllOnlyDeleted" -> findAllOnlyDeleted(st, a.f, a.o)
    [] m = "countWithDeleted"   -> countWithDeleted(st, a.f)
    [] m = "countOnlyDeleted"   -> countOnlyDeleted(st, a.f)
    [] m = "existsWithDeleted"  -> existsWithDeleted(st, a.f)
    [] m = "findAllPaginated" ->
         findAllPaginated(st, a.f, a.page, a.limit, a.sort)
    [] m = "findAllPaginatedWithDeleted" ->
         findAllPaginatedWithDeleted(st, a.f, a.page, a.limit, a.sort)
    [] m = "findAllPaginatedOnlyDeleted" ->
         findAllPaginatedOnlyDeleted(st, a.f, a.page, a.limit, a.sort)
    [] OTHER -> BaseService(m, st, a)

\* slip: the actor is not handed on to the repository
AuditableService_dropsActor(m, st, a) ==
  CASE m = "createWithAudit" -> createWithAudit(st, a.id, a.data[1], NoKey)
    [] m = "createManyWithAudit" -> createManyWithAudit(st, a.id, a.data, NoKey)
    [] m = "findByIdAndUpdateWithAudit" ->
         findByIdAndUpdateWithAudit(st, a.id, a.u, NoKey)
    [] m = "findOneAndUpdateWithAudit" ->
         findOneAndUpdateWithAudit(st, a.f, a.u, NoKey)
    [] m = "updateManyWithAudit" -> updateManyWithAudit(st, a.f, a.u, NoKey)
    [] OTHER -> SoftDeletableService(m, st, a)

AuditableService(m, st, a) ==
  CASE m = "createWithAudit" -> createWithAudit(st, a.id, a.data[1], a.by)
    [] m = "createManyWithAudit" -> createManyWithAudit(st, a.id, a.data, a.by)
    [] m = "findByIdAndUpdateWithAudit" ->
         findByIdAndUpdateWithAudit(st, a.id, a.u, a.by)
    [] m = "findOneAndUpdateWithAudit" ->
         findOneAndUpdateWithAudit(st, a.f, a.u, a.by)
    [] m = "updateManyWithAudit" -> updateManyWithAudit(st, a.f, a.u, a.by)
    [] OTHER -> SoftDeletableService(m, st, a)

\* ------------------------------------------------------------- failures
\* the store rejects a command with error e and leaves the collection st:
\* the promise of the call rejects with e, after one failed command
Rejects(st, e) == [st |-> st, err |-> e, failed |-> 1]

\* slip: the rejection is caught and null is returned
Settles_swallowed(o) == [o EXCEPT !.err = "none"]

\* an async method that returns the promise of the one call it makes
\* settles as that promise does
Settles(o) == o

\* the store rejects the command of repository method m with error e:
\* entity.save() and the single-command writes leave nothing written;
\* insertMany raises a ValidationError before anything is sent to the
\* store, and when the connection fails the first k documents may have
\* been written
Rejected(m, st, a, e, k) ==
  Settles(Rejects(IF m = "createMany" /\ e = "ConnectionError"
                  THEN createMany(st, a.id, SubSeq(a.data, 1, k)).st
                  ELSE st, e))

\* the service method over the repository method over the store command
BaseService_rejected(m, st, a, e, k) == Settles(Rejected(m, st, a, e, k))

\* ----------------------------------------------------------------- state
\* last: the write that completed last: its name, its arguments (id, filter
\* f, payload u, actor by), the document the id held before the call (pre)
\* and what the call returned (ret, n)
\* race: callers that issued findOneAndUpdate(f, u) concurrently: the
\* collection when they did (st0), who still waits (pending), the order in
\* which the store served the others and what each got (ret)
Callers == 1..MaxCallers

NoRace ==
  [f |-> EmptyFilter, u |-> NoUpdate, st0 |-> [i \in Ids |-> NoDoc],
   pending |-> {}, order |-> << >>, ret |-> [c \in Callers |-> NoDoc]]

\* reg: the UserRepository class the service runs on, the email every
\* caller passes to createUser, where each call stands (idle, checked: the
\* lookup found nothing, done) and how it ended
NoReg ==
  [repo |-> "BaseRepository", email |-> "a",
   pc |-> [c \in Callers |-> "idle"], res |-> [c \in Callers |-> "none"]]

NoLast ==
  [op |-> "init", id |-> 0, f |-> EmptyFilter, u |-> NoUpdate, by |-> NoKey,
   pre |-> NoDoc, ret |-> NoDoc, n |-> 0, data |-> << >>, docs |-> << >>,
   at |-> 0, options |-> NoUpdateOptions,
   rejected |-> "none", err |-> "none", failed |-> 0]

Init ==
  /\ store = [i \in Ids |-> NoDoc]
  /\ nextId = 1
  /\ clock = 1
  /\ last = NoLast
  /\ pag = PagIdle
  /\ race = NoRace
  /\ reg = NoReg

\* a write that lands between the two reads of a paginated call in flight
PagAfterWrite(st) ==
  IF pag.pc = "called" /\ pag.gotData # pag.gotTotal /\ st # store
  THEN [pag EXCEPT !.dirty = TRUE] ELSE pag

Done(op, id, f, u, by, r) ==
  /\ store' = r.st
  /\ pag' = PagAfterWrite(r.st)
  /\ race' = race
  /\ reg' = reg
  /\ last' = [op |-> op, id |-> id, f |-> f, u |-> u, by |-> by,
              pre |-> IF id \in Ids THEN store[id] ELSE NoDoc,
              ret |-> r.ret, n |-> r.n, data |-> << >>, docs |-> << >>,
              at |-> clock, options |-> NoUpdateOptions,
              rejected |-> "none", err |-> "none", failed |-> 0]

\* a find-and-update called with an options bag completed
DoneOptions(op, id, f, u, options, r) ==
  /\ store' = r.st
  /\ pag' = PagAfterWrite(r.st)
  /\ race' = race
  /\ reg' = reg
  /\ last' = [NoLast EXCEPT !.op = op, !.id = id, !.f = f, !.u = u,
                            !.pre = IF id \in Ids THEN store[id] ELSE NoDoc,
                            !.ret = r.ret, !.n = r.n, !.at = clock,
                            !.options = options]

\* a create that completed: data is the sequence of entity data passed,
\* docs the sequence of documents a batch create returned
DoneCreate(op, id, data, by, r, docs) ==
  /\ store' = r.st
  /\ pag' = PagAfterWrite(r.st)
  /\ race' = race
  /\ reg' = reg
  /\ last' = [NoLast EXCEPT !.op = op, !.id = id, !.by = by, !.ret = r.ret,
                            !.n = r.n, !.data = data, !.docs = docs,
                            !.at = clock]

CreateData == [cat : Cats, createdBy : {NoKey}]

OptActors == Actors \cup {NoKey}
OptDelActors == DelActors \cup {NoKey}

\* --------------------------------------------------------------- actions
Create ==
  /\ nextId <= MaxRecords
  /\ \E data \in CreateData :
       DoneCreate("create", nextId, <<data>>, NoKey,
                  create(store, nextId, data), << >>)
  /\ nextId' = nextId + 1
  /\ UNCHANGED clock

\* entity data of a User: it carries the password, which the schema
\* declares select: false
\* UserRepository.create: BaseRepository.create on the User schema
CreateUser ==
  /\ nextId <= MaxRecords
  /\ \E data \in [cat : Cats, createdBy : {NoKey}, secret : {"s"}] :
       DoneCreate("create", nextId, <<data>>, NoKey,
                  create(store, nextId, data), << >>)
  /\ nextId' = nextId + 1
  /\ UNCHANGED clock

CreateMany ==
  /\ nextId + 1 <= MaxRecords
  /\ \E d1 \in CreateData, d2 \in CreateData :
       DoneCreate("createMany", 0, <<d1, d2>>, NoKey,
                  createMany(store, nextId, <<d1, d2>>),
                  createMany(store, nextId, <<d1, d2>>).docs)
  /\ nextId' = nextId + 2
  /\ UNCHANGED clock

\* time passes between two calls
Tick ==
  /\ clock < MaxClock
  /\ clock' = clock + 1
  /\ UNCHANGED <<store, nextId, last, pag, race, reg>>

SoftDelete ==
  \E id \in Ids, by \in OptDelActors :
    /\ Done("softDelete", id, EmptyFilter, NoUpdate, by,
            softDelete(store, id, by, clock))
    /\ UNCHANGED <<nextId, clock>>

SoftDeleteMany ==
  \E f \in WriteFilters, by \in OptDelActors :
    /\ Done("softDeleteMany", 0, f, NoUpdate, by,
            softDeleteMany(store, f, by, clock))
    /\ UNCHANGED <<nextId, clock>>

Restore ==
  /\ \E id \in Ids :
       Done("restore", id, EmptyFilter, NoUpdate, NoKey, restore(store, id))
  /\ UNCHANGED <<nextId, clock>>

RestoreMany ==
  /\ \E f \in WriteFilters :
       Done("restoreMany", 0, f, NoUpdate, NoKey, restoreMany(store, f))
  /\ UNCHANGED <<nextId, clock>>

ForceDelete ==
  /\ \E id \in Ids :
       Done("forceDelete", id, EmptyFilter, NoUpdate, NoKey,
            forceDelete(store, id))
  /\ UNCHANGED <<nextId, clock>>

ForceDeleteMany ==
  /\ \E f \in WriteFilters :
       Done("forceDeleteMany", 0, f, NoUpdate, NoKey, forceDeleteMany(store, f))
  /\ UNCHANGED <<nextId, clock>>

FindByIdAndUpdate ==
  /\ \E id \in Ids, u \in Updates :
       Done("findByIdAndUpdate", id, EmptyFilter, u, NoKey,
            findByIdAndUpdate(store, id, u))
  /\ UNCHANGED <<nextId, clock>>

FindOneAndUpdate ==
  /\ \E f \in WriteFilters, u \in Updates :
       Done("findOneAndUpdate", 0, f, u, NoKey, findOneAndUpdate(store, f, u))
  /\ UNCHANGED <<nextId, clock>>

FindByIdAndUpdateOptions ==
  /\ \E id \in Ids, u \in Updates, options \in OptionBags :
       DoneOptions("findByIdAndUpdate", id, EmptyFilter, u, options,
                   findByIdAndUpdateOptions(store, id, u, options))
  /\ UNCHANGED <<nextId, clock>>

FindOneAndUpdateOptions ==
  /\ \E f \in WriteFilters, u \in Updates, options \in OptionBags :
       DoneOptions("findOneAndUpdate", 0, f, u, options,
                   findOneAndUpdateOptions(store, f, u, options))
  /\ UNCHANGED <<nextId, clock>>

\* every caller awaits findOneAndUpdate(f, u) at once
RaceCall ==
  /\ race.pending = {}
  /\ \E f \in WriteFilters, u \in Updates :
       race' = [NoRace EXCEPT !.f = f, !.u = u, !.st0 = store,
                              !.pending = Callers]
  /\ UNCHANGED <<store, nextId, clock, last, pag, reg>>

\* slip: the match is found when the call is issued and updated by id when
\* the store serves the call
served_findThenUpdate(st, rc) ==
  IF MatchIds(rc.st0, rc.f) = {} THEN Res(st, NoDoc, 0)
  ELSE findByIdAndUpdate(st, Min(MatchIds(rc.st0, rc.f)), rc.u)

\* the store serves one call of the race: a single find-and-update command
served(st, rc) == findOneAndUpdate(st, rc.f, rc.u)

\* the store serves the call of one waiting caller, as one atomic step
RaceResolve ==
  /\ \E c \in race.pending :
       LET r == served(store, race)
       IN  /\ store' = r.st
           /\ pag' = PagAfterWrite(r.st)
           /\ last' = [NoLast EXCEPT !.op = "findOneAndUpdate", !.f = race.f,
                                     !.u = race.u, !.ret = r.ret, !.n = r.n,
                                     !.at = clock]
           /\ race' = [race EXCEPT !.pending = @ \ {c},
                                   !.order = Append(@, c),
                                   !.ret[c] = r.ret]
  /\ UNCHANGED <<nextId, clock, reg>>

UpdateMany ==
  /\ \E f \in WriteFilters, u \in Updates :
       Done("updateMany", 0, f, u, NoKey, updateMany(store, f, u))
  /\ UNCHANGED <<nextId, clock>>

FindByIdAndDelete ==
  /\ \E id \in Ids :
       Done("findByIdAndDelete", id, EmptyFilter, NoUpdate, NoKey,
            findByIdAndDelete(store, id))
  /\ UNCHANGED <<nextId, clock>>

FindOneAndDelete ==
  /\ \E f \in WriteFilters :
       Done("findOneAndDelete", 0, f, NoUpdate, NoKey, findOneAndDelete(store, f))
  /\ UNCHANGED <<nextId, clock>>

DeleteMany ==
  /\ \E f \in WriteFilters :
       Done("deleteMany", 0, f, NoUpdate, NoKey, deleteMany(store, f))
  /\ UNCHANGED <<nextId, clock>>

CreateWithAudit ==
  /\ nextId <= MaxRecords
  /\ \E data \in CreateData, by \in OptActors :
       DoneCreate("createWithAudit", nextId, <<data>>, by,
                  createWithAudit(store, nextId, data, by), << >>)
  /\ nextId' = nextId + 1
  /\ UNCHANGED clock

CreateManyWithAudit ==
  /\ nextId + 1 <= MaxRecords
  /\ \E d1 \in CreateData, d2 \in CreateData, by \in OptActors :
       DoneCreate("createManyWithAudit", 0, <<d1, d2>>, by,
                  createManyWithAudit(store, nextId, <<d1, d2>>, by),
                  createManyWithAudit(store, nextId, <<d1, d2>>, by).docs)
  /\ nextId' = nextId + 2
  /\ UNCHANGED clock

FindByIdAndUpdateWithAudit ==
  /\ \E id \in Ids, u \in Updates, by \in OptActors :
       Done("findByIdAndUpdateWithAudit", id, EmptyFilter, u, by,
            findByIdAndUpdateWithAudit(store, id, u, by))
  /\ UNCHANGED <<nextId, clock>>

FindOneAndUpdateWithAudit ==
  /\ \E f \in WriteFilters, u \in Updates, by \in OptActors :
       Done("findOneAndUpdateWithAudit", 0, f, u, by,
            findOneAndUpdateWithAudit(store, f, u, by))
  /\ UNCHANGED <<nextId, clock>>

UpdateManyWithAudit ==
  /\ \E f \in WriteFilters, u \in Updates, by \in OptActors :
       Done("updateManyWithAudit", 0, f, u, by,
            updateManyWithAudit(store, f, u, by))
  /\ UNCHANGED <<nextId, clock>>

\* ------------------------------------------------- service-layer calls
\* the arguments write method m of a service is called with
ServiceArgs(m) ==
  LET ids == {[NoArgs EXCEPT !.id = i] : i \in Ids}
      fs == {[NoArgs EXCEPT !.f = f] : f \in WriteFilters}
      us(S) == {[a EXCEPT !.u = u] : a \in S, u \in Updates}
      bys(S) == {[a EXCEPT !.by = b] : a \in S, b \in OptDelActors}
      opts(S) == {[a EXCEPT !.options = o] : a \in S, o \in OptionBags}
      one == {[NoArgs EXCEPT !.id = nextId, !.data = <<d>>] : d \in CreateData}
      many == {[NoArgs EXCEPT !.id = nextId, !.data = <<d1, d2>>] :
                 d1 \in CreateData, d2 \in CreateData}
  IN  CASE m = "create" -> one
        [] m = "createMany" -> one \cup many
        [] m = "createWithAudit" -> bys(one)
        [] m = "createManyWithAudit" -> bys(one \cup many)
        [] m \in {"findByIdAndDelete", "restore", "forceDelete"} -> ids
        [] m = "softDelete" -> bys(ids)
        [] m \in {"findOneAndDelete", "deleteMany", "restoreMany",
                  "forceDeleteMany"} -> fs
        [] m = "softDeleteMany" -> bys(fs)
        [] m = "findByIdAndUpdate" -> opts(us(ids))
        [] m = "findOneAndUpdate" -> opts(us(fs))
        [] m = "updateMany" -> us(fs)
        [] m = "findByIdAndUpdateWithAudit" -> bys(us(ids))
        [] m \in {"findOneAndUpdateWithAudit", "updateManyWithAudit"} ->
             bys(us(fs))

\* the write methods of BaseService, SoftDeletableService, AuditableService
WriteMethods ==
  {"create", "createMany", "findByIdAndUpdate", "findOneAndUpdate",
   "updateMany", "findByIdAndDelete", "findOneAndDelete", "deleteMany",
   "softDelete", "softDeleteMany", "restore", "restoreMany", "forceDelete",
   "forceDeleteMany", "createWithAudit", "createManyWithAudit",
   "findByIdAndUpdateWithAudit", "findOneAndUpdateWithAudit",
   "updateManyWithAudit"}

\* one call of a service write method on a collection nothing was called
\* on yet; the store accepts the command
ServiceCall ==
  /\ last.op = "init"
  /\ \E m \in WriteMethods :
       \E a \in ServiceArgs(m) :
         LET r == AuditableService(m, store, [a EXCEPT !.now = clock])
             batch == m \in {"createMany", "createManyWithAudit"}
         IN  /\ nextId + Len(a.data) - 1 <= MaxRecords
             /\ store' = r.st
             /\ pag' = PagAfterWrite(r.st)
             /\ nextId' = nextId + Len(a.data)
             /\ last' = [NoLast EXCEPT
                           !.op = m, !.id = a.id, !.f = a.f, !.u = a.u,
                           !.by = a.by, !.data = a.data, !.options = a.options,
                           !.pre = IF a.id \in Ids THEN store[a.id] ELSE NoDoc,
                           !.ret = r.ret, !.n = r.n,
                           !.docs = IF batch THEN r.docs ELSE << >>,
                           !.at = clock]
  /\ UNCHANGED <<clock, race, reg>>

\* one call of a service write method whose command the store rejects:
\* rejected is the error the store raised, err the one the caller of the
\* service method gets
ServiceRejected ==
  /\ last.op = "init"
  /\ \E m \in WriteMethods, e \in {"ValidationError", "ConnectionError"},
        k \in 0..2 :
       \E a \in ServiceArgs(m) :
         LET o == BaseService_rejected(m, store, a, e, k)
         IN  /\ nextId + Len(a.data) - 1 <= MaxRecords
             /\ k <= Len(a.data)
             /\ (m # "createMany" \/ e = "ValidationError") => k = 0
             /\ Len(a.data) = 0 => e = "ConnectionError"
             /\ store' = o.st
             /\ pag' = PagAfterWrite(o.st)
             /\ nextId' = nextId + k
             /\ last' = [NoLast EXCEPT !.op = m, !.id = a.id, !.f = a.f,
                                       !.data = a.data, !.at = clock,
                                       !.rejected = e, !.err = o.err,
                                       !.failed = o.failed]
  /\ UNCHANGED <<clock, race, reg>>

\* ----------------------------------------------------------------- users
\* The caller's field of a document stands for the email of a User.
\* String.prototype.toLowerCase, and the lowercase: true setter of the
\* schema, on the emails callers pass
ToLowerCase(e) == IF e = "A" THEN "a" ELSE IF e = "B" THEN "b" ELSE e

\* findByEmail: this.findOne({ email: email.toLowerCase() }), which is the
\* inherited findOne when UserRepository extends BaseRepository and the
\* live-only findOne when it extends AuditableRepository
UserRepository_findByEmail(repo, st, email) ==
  IF repo = "BaseRepository"
  THEN super_findOne(st, [EmptyFilter EXCEPT !.cat = ToLowerCase(email)])
  ELSE findOne(st, [EmptyFilter EXCEPT !.cat = ToLowerCase(email)])

\* the unique index on email: a stored document, soft-deleted or not, holds
\* the email
DuplicateKey(st, email) == \E i \in Ids : st[i] # NoDoc /\ st[i].cat = email

\* this.createWithAudit(data, createdBy) of UserService: the repository
\* method is missing on a BaseRepository (TypeError); on an
\* AuditableRepository the insert is rejected by the unique index when the
\* email is stored already (E11000 duplicate key)
UserService_createWithAudit(repo, st, id, data, createdBy) ==
  IF repo = "BaseRepository" THEN Rejects(st, "TypeError")
  ELSE IF DuplicateKey(st, ToLowerCase(data.cat)) THEN Rejects(st, "E11000")
  ELSE [st |-> createWithAudit(st, id, [data EXCEPT !.cat = ToLowerCase(@)],
                               createdBy).st,
        err |-> "none", failed |-> 0]

\* createUser, first await: the lookup by email; a record found ends the
\* call with 'User already exists'
CreateUserFind ==
  /\ \E c \in Callers :
       /\ reg.pc[c] = "idle"
       /\ reg' = IF UserRepository_findByEmail(reg.repo, store, reg.email) # NoDoc
                 THEN [reg EXCEPT !.pc[c] = "done",
                                  !.res[c] = "User already exists"]
                 ELSE [reg EXCEPT !.pc[c] = "checked"]
  /\ UNCHANGED <<store, nextId, clock, last, pag, race>>

\* createUser, second await: createWithAudit({email, name, password},
\* createdBy); the call returns the user or fails with the error raised
CreateUserInsert ==
  /\ \E c \in Callers, by \in OptDelActors :
       /\ reg.pc[c] = "checked"
       /\ LET data == [cat |-> reg.email, createdBy |-> NoKey, secret |-> "s"]
              o == UserService_createWithAudit(reg.repo, store, nextId, data, by)
          IN  /\ store' = o.st
              /\ pag' = PagAfterWrite(o.st)
              /\ nextId' = IF o.err = "none" THEN nextId + 1 ELSE nextId
              /\ last' = [NoLast EXCEPT !.op = "createWithAudit", !.id = nextId,
                                        !.data = <<data>>, !.by = by,
                                        !.at = clock, !.err = o.err,
                                        !.failed = o.failed]
              /\ reg' = [reg EXCEPT !.pc[c] = "done",
                                    !.res[c] = IF o.err = "none" THEN "created"
                                               ELSE o.err]
  /\ UNCHANGED <<clock, race>>

\* findAllPaginated / findAllPaginatedWithDeleted / findAllPaginatedOnlyDeleted
\* is called: each hands its filter to BaseRepository.findAllPaginated
PagCall ==
  /\ pag.pc \in {"idle", "done"}
  /\ \E mode \in {"live", "withDeleted", "onlyDeleted"}, f \in PagFilters,
        page \in 1..MaxPage, limit \in 1..MaxLimit,
        sort \in {"none", "createdAt_asc"} :
       pag' = [PagIdle EXCEPT !.pc = "called", !.mode = mode, !.caller = f,
                              !.filter = PaginatedFilter(mode, f),
                              !.page = page, !.limit = limit, !.sort = sort]
  /\ UNCHANGED <<store, nextId, clock, last, race, reg>>

\* Promise.all: the two reads reach the store in either order; the call
\* returns { data, meta } once both have answered
PagFindAll ==
  /\ pag.pc = "called" /\ ~pag.gotData
  /\ pag' = [pag EXCEPT !.gotData = TRUE,
                        !.data = PageData(store, pag.filter, pag.page, pag.limit, pag.sort),
                        !.pc = IF pag.gotTotal THEN "done" ELSE @,
                        !.meta = IF pag.gotTotal
                                 THEN Meta(pag.total, pag.page, pag.limit) ELSE @]
  /\ UNCHANGED <<store, nextId, clock, last, race, reg>>

PagCount ==
  /\ pag.pc = "called" /\ ~pag.gotTotal
  /\ pag' = [pag EXCEPT !.gotTotal = TRUE,
                        !.total = PageTotal(store, pag.filter),
                        !.pc = IF pag.gotData THEN "done" ELSE @,
                        !.meta = IF pag.gotData
                                 THEN Meta(PageTotal(store, pag.filter), pag.page, pag.limit)
                                 ELSE @]
  /\ UNCHANGED <<store, nextId, clock, last, race, reg>>

\* the write operations a SoftDeletableRepository exposes
Next ==
  \/ Create \/ CreateMany
  \/ SoftDelete \/ SoftDeleteMany \/ Restore \/ RestoreMany
  \/ ForceDelete \/ ForceDeleteMany
  \/ FindByIdAndUpdate \/ FindOneAndUpdate \/ UpdateMany
  \/ FindByIdAndDelete \/ FindOneAndDelete \/ DeleteMany

Spec == Init /\ [][Next \/ Tick]_vars

\* an empty collection whose every soft delete reads the same time: the
\* life-cycle state of a record does not depend on the value of deletedAt
InitLifecycle ==
  /\ store = [i \in Ids |-> NoDoc]
  /\ nextId = 1
  /\ clock = MaxClock
  /\ last = NoLast
  /\ pag = PagIdle
  /\ race = NoRace
  /\ reg = NoReg

\* creation and the soft-delete operations of a SoftDeletableRepository,
\* between which the default reads are answered
NextReads ==
  \/ Create
  \/ SoftDelete \/ SoftDeleteMany \/ Restore \/ RestoreMany
  \/ ForceDelete

SpecReads == InitLifecycle /\ [][NextReads]_vars

\* the operations of the record life cycle: creation, soft delete, restore,
\* force delete and the generic updates
NextLifecycle ==
  \/ Create \/ CreateMany
  \/ SoftDelete \/ SoftDeleteMany \/ Restore \/ RestoreMany
  \/ ForceDelete \/ ForceDeleteMany
  \/ FindByIdAndUpdate \/ FindOneAndUpdate \/ UpdateMany

SpecLifecycle == InitLifecycle /\ [][NextLifecycle]_vars

\* every write operation a SoftDeletableRepository exposes, the inherited
\* base deletes included; which ids are stored does not depend on the value
\* of deletedAt
SpecRemoval == InitLifecycle /\ [][Next]_vars

\* the update operations of an AuditableRepository, plain and audited, on
\* a collection that had earlier records force-deleted
InitUpdates ==
  /\ store = [i \in Ids |-> NoDoc]
  /\ nextId = MaxRecords - UpdRecords + 1
  /\ clock = MaxClock
  /\ last = NoLast
  /\ pag = PagIdle
  /\ race = NoRace
  /\ reg = NoReg

NextUpdates ==
  \/ Create
  \/ SoftDelete \/ SoftDeleteMany \/ Restore \/ RestoreMany
  \/ FindByIdAndUpdate \/ FindOneAndUpdate \/ UpdateMany
  \/ FindByIdAndUpdateWithAudit \/ FindOneAndUpdateWithAudit
  \/ UpdateManyWithAudit

SpecUpdates == InitUpdates /\ [][NextUpdates]_vars

\* the audited updates of an AuditableRepository on records created with
\* an actor or without, live or soft-deleted
NextAuditUpdates ==
  \/ CreateWithAudit \/ SoftDelete
  \/ FindByIdAndUpdateWithAudit \/ FindOneAndUpdateWithAudit
  \/ UpdateManyWithAudit

SpecAuditUpdates == InitUpdates /\ [][NextAuditUpdates]_vars

\* soft deletes, restores and audited bulk updates while time passes, on a
\* collection that had earlier records force-deleted
InitStamps ==
  /\ store = [i \in Ids |-> NoDoc]
  /\ nextId = MaxRecords - UpdRecords + 1
  /\ clock = 1
  /\ last = NoLast
  /\ pag = PagIdle
  /\ race = NoRace
  /\ reg = NoReg

NextStamps ==
  \/ Tick
  \/ Create
  \/ SoftDelete \/ SoftDeleteMany \/ Restore \/ RestoreMany
  \/ UpdateManyWithAudit

SpecStamps == InitStamps /\ [][NextStamps]_vars

\* paginated reads in flight while records are created and soft-deleted
InitPag ==
  /\ store = [i \in Ids |-> NoDoc]
  /\ nextId = MaxRecords - PagRecords + 1
  /\ clock = MaxClock
  /\ last = NoLast
  /\ pag = PagIdle
  /\ race = NoRace
  /\ reg = NoReg

NextPag ==
  \/ PagCall \/ PagFindAll \/ PagCount
  \/ Create \/ SoftDelete

SpecPag == InitPag /\ [][NextPag]_vars

\* the creates of an AuditableRepository, plain and audited, followed by
\* soft deletes and restores
NextAudit ==
  \/ Create \/ CreateWithAudit \/ CreateManyWithAudit
  \/ SoftDelete \/ SoftDeleteMany \/ Restore \/ RestoreMany

SpecAudit == InitLifecycle /\ [][NextAudit]_vars

\* creates of plain, audited and User records, each readable by id right
\* after, and soft deletes
NextCreate ==
  \/ Create \/ CreateWithAudit \/ CreateUser
  \/ SoftDelete

SpecCreate == InitLifecycle /\ [][NextCreate]_vars

\* find-and-update calls with every options bag, on live and soft-deleted
\* records
NextOptions ==
  \/ Create \/ SoftDelete
  \/ FindByIdAndUpdateOptions \/ FindOneAndUpdateOptions

SpecOptions == InitLifecycle /\ [][NextOptions]_vars

\* the documents id i can hold once the collection has been filled: a live
\* record, or one soft-deleted at the time MaxClock by an actor or by nobody
DocsOf(i) ==
  {[NoDoc EXCEPT !._id = i, !.cat = c, !.updatedAt = MaxClock] : c \in Cats}
    \cup {[NoDoc EXCEPT !._id = i, !.cat = c, !.deletedAt = MaxClock, !.deletedBy = by,
                       !.updatedAt = MaxClock] :
            c \in Cats, by \in DelActors \cup {NullStr}}

\* the collections of the last PagRecords ids, some ids force-deleted
Collections ==
  {st \in [Ids -> {NoDoc} \cup UNION {DocsOf(i) : i \in Ids}] :
     \A i \in Ids : /\ st[i] # NoDoc => st[i]._id = i
                    /\ i <= MaxRecords - PagRecords => st[i] = NoDoc}

\* paginated reads of a collection nobody writes to
InitPaginate ==
  /\ store \in Collections
  /\ nextId = MaxRecords + 1
  /\ clock = MaxClock
  /\ last = NoLast
  /\ pag = PagIdle
  /\ race = NoRace
  /\ reg = NoReg

NextPaginate == PagCall \/ PagFindAll \/ PagCount

SpecPaginate == InitPaginate /\ [][NextPaginate]_vars

\* races of findOneAndUpdate on a collection nobody else writes to
InitRace ==
  /\ store \in Collections
  /\ nextId = MaxRecords + 1
  /\ clock = MaxClock
  /\ last = NoLast
  /\ pag = PagIdle
  /\ race = NoRace
  /\ reg = NoReg

NextRace == RaceCall \/ RaceResolve

SpecRace == InitRace /\ [][NextRace]_vars

\* a collection with live and soft-deleted records, some ids force-deleted
\* and the ids from nextId on not handed out yet
InitService ==
  /\ store \in Collections
  /\ nextId \in {n \in 1..MaxRecords + 1 : \A i \in Ids : i >= n => store[i] = NoDoc}
  /\ clock = MaxClock
  /\ last = NoLast
  /\ pag = PagIdle
  /\ race = NoRace
  /\ reg = NoReg

\* each write method of the three service classes called on every such
\* collection, the store accepting or rejecting its command
NextService == ServiceCall \/ ServiceRejected

SpecService == InitService /\ [][NextService]_vars

\* one findAllPaginated call in flight, its two reads not yet answered,
\* while records are force-deleted
InitPagRace ==
  /\ store \in Collections
  /\ nextId = MaxRecords + 1
  /\ clock = MaxClock
  /\ last = NoLast
  /\ pag \in {[PagIdle EXCEPT !.pc = "called", !.caller = f,
                              !.filter = PaginatedFilter("live", f),
                              !.page = page, !.limit = limit] :
                f \in PagFilters, page \in 1..MaxPage, limit \in 1..MaxLimit}
  /\ race = NoRace
  /\ reg = NoReg

NextPagRace == PagFindAll \/ PagCount \/ ForceDelete

SpecPagRace == InitPagRace /\ [][NextPagRace]_vars

\* every caller calls createUser with the same email ("a" or "A"), on
\* either repository class; the users of the collection have distinct
\* emails (the unique index) and the last id is not handed out yet
InitCreateUser ==
  /\ store \in {st \in Collections :
                  /\ st[MaxRecords] = NoDoc
                  /\ \A i, j \in Ids :
                       (i # j /\ st[i] # NoDoc /\ st[j] # NoDoc)
                         => st[i].cat # st[j].cat}
  /\ nextId = MaxRecords
  /\ clock = MaxClock
  /\ last = NoLast
  /\ pag = PagIdle
  /\ race = NoRace
  /\ reg \in {[NoReg EXCEPT !.repo = k, !.email = e] :
                k \in {"BaseRepository", "AuditableRepository"}, e \in {"a", "A"}}

NextCreateUser == CreateUserFind \/ CreateUserInsert

SpecCreateUser == InitCreateUser /\ [][NextCreateUser]_vars

\* ================================================================ claims
ById(i) == [EmptyFilter EXCEPT !._id = i]

IsDoc(d) == d # NoDoc
IsLive(d) == d # NoDoc /\ d.deletedAt = NullDate
IsDeleted(d) == d # NoDoc /\ d.deletedAt # NullDate

Stored(st) == {i \in Ids : st[i] # NoDoc}

\* the collection without its soft-deleted documents
LiveOnly(st) == [i \in Ids |-> IF IsDeleted(st[i]) THEN NoDoc ELSE st[i]]

\* C1: for every caller filter, findAll, findOne and findById return only
\* documents whose deletedAt is null, and count and exists give what they
\* would give if the soft-deleted documents were not in the collection.
C1_DefaultReadsLiveOnly ==
  /\ \A f \in ReadFilters :
       /\ \A d \in Range(findAll(store, f, NoOptions)) : d.deletedAt = NullDate
       /\ findOne(store, f).deletedAt = NullDate
       /\ count(store, f) = count(LiveOnly(store), f)
       /\ exists(store, f) = exists(LiveOnly(store), f)
  /\ \A i \in Ids : findById(store, i).deletedAt = NullDate

C1_Witness ==
  /\ \E i \in Ids, j \in Ids : IsDeleted(store[i]) /\ IsLive(store[j])
  /\ count(store, EmptyFilter) = 1
  /\ countWithDeleted(store, EmptyFilter) = 2
  /\ last.op \in {"softDelete", "softDeleteMany"}

\* id i is hidden from the default read and served by the deleted-only read
Hidden(st, i) ==
  /\ st[i]._id = i
  /\ st[i].deletedAt # NullDate
  /\ findById(st, i) = NoDoc
  /\ findAllOnlyDeleted(st, ById(i), NoOptions) = <<st[i]>>

\* C2: softDelete(i) on a live record leaves findById(i) null and
\* findAllOnlyDeleted restricted to i returning exactly that record with
\* deletedAt set, and every later write to the collection other than a
\* restore or a force delete leaves the soft-deleted record so.
C2_SoftDeleteHides ==
  [][\A i \in Ids :
       (\/ IsLive(store[i]) /\ last'.op = "softDelete" /\ last'.id = i
        \/ IsDeleted(store[i]) /\ last'.op \notin
             {"restore", "restoreMany", "forceDelete", "forceDeleteMany"})
         => Hidden(store', i)]_vars

C2_Witness ==
  /\ last.op = "softDelete" /\ IsLive(last.pre) /\ last.by = NoKey
  /\ Hidden(store, last.id)
  /\ last.ret.deletedBy = NullStr

\* C3: restore(i) finds a stored record whatever its deletion state, returns
\* it with deletedAt and deletedBy null and everything else as it was, and
\* the record is then returned by findById and findAll and counted by count.
C3_RestoreMakesVisible ==
  (last.op = "restore" /\ IsDoc(last.pre)) =>
    /\ last.ret = [last.pre EXCEPT !.deletedAt = NullDate, !.deletedBy = NullStr,
                                   !.updatedAt = last.at]
    /\ last.ret._id = last.id
    /\ findById(store, last.id) = last.ret
    /\ last.ret \in Range(findAll(store, EmptyFilter, NoOptions))
    /\ count(store, ById(last.id)) = 1

C3_Witness ==
  /\ last.op = "restore" /\ IsDeleted(last.pre) /\ last.pre.deletedBy \in DelActors
  /\ IsLive(last.ret)
  /\ findById(store, last.id) = last.ret

IdsOf(s) == {d._id : d \in Range(s)}

\* C4: forceDelete(i) on a stored record, live or soft-deleted, returns that
\* record, and afterwards no read in any visibility mode returns id i and no
\* count counts it.
C4_ForceDeleteRemoves ==
  (last.op = "forceDelete" /\ IsDoc(last.pre)) =>
    /\ last.ret = last.pre
    /\ findById(store, last.id) = NoDoc
    /\ \A f \in Filters :
         /\ last.id \notin IdsOf(findAll(store, f, NoOptions))
         /\ last.id \notin IdsOf(findAllWithDeleted(store, f, NoOptions))
         /\ last.id \notin IdsOf(findAllOnlyDeleted(store, f, NoOptions))
    /\ count(store, ById(last.id)) = 0
    /\ countWithDeleted(store, ById(last.id)) = 0
    /\ countOnlyDeleted(store, ById(last.id)) = 0

C4_Witness ==
  /\ last.op = "forceDelete" /\ IsDeleted(last.pre)
  /\ last.ret = last.pre
  /\ store[last.id] = NoDoc

\* the step in which a paginated call gets its second answer and returns,
\* no write having landed between its two reads
Returns(mode) ==
  /\ pag.pc = "called" /\ pag'.pc = "done"
  /\ pag.mode = mode
  /\ ~pag.dirty

\* C5: findAllPaginatedWithDeleted returns the window of all records
\* matching the caller's filter, live and soft-deleted alike, and meta.total
\* equals countWithDeleted(filter).
C5_PaginatedWithDeletedUnfiltered ==
  [][Returns("withDeleted") =>
       /\ pag'.data = findAllWithDeleted(store, pag.caller,
                        QueryOptions(pag.page, pag.limit, pag.sort))
       /\ pag'.meta.total = countWithDeleted(store, pag.caller)]_vars

\* C6: findAllPaginatedOnlyDeleted returns only records whose deletedAt is
\* set, and meta.total equals countOnlyDeleted(filter).
C6_PaginatedOnlyDeleted ==
  [][Returns("onlyDeleted") =>
       /\ \A d \in Range(pag'.data) : d.deletedAt # NullDate
       /\ pag'.meta.total = countOnlyDeleted(store, pag.caller)]_vars

\* C7 as stated: softDelete returns null when the id holds no live record,
\* and leaves an already soft-deleted record as it was.
C7_SoftDeleteLiveOnly ==
  (last.op = "softDelete" /\ ~IsLive(last.pre)) =>
    /\ last.ret = NoDoc
    /\ store[last.id] = last.pre

\* C7 as amended: softDelete returns null only when no record has the id;
\* on a stored record, soft-deleted or not, it returns the updated record
\* with deletedAt set to the current time and deletedBy set to the actor
\* given, deletedBy being left as it was when no actor is given.
C7_SoftDeleteRestamps ==
  last.op = "softDelete" =>
    /\ ~IsDoc(last.pre) => (last.ret = NoDoc /\ store[last.id] = NoDoc)
    /\ IsDoc(last.pre) =>
         /\ last.ret = [last.pre EXCEPT
                          !.deletedAt = last.at, !.updatedAt = last.at,
                          !.deletedBy = IF last.by = NoKey THEN @ ELSE last.by]
         /\ store[last.id] = last.ret

C7_Witness ==
  /\ last.op = "softDelete" /\ IsDeleted(last.pre)
  /\ last.ret.deletedAt > last.pre.deletedAt
  /\ store[last.id] = last.ret

ByIdUpdates  == {"findByIdAndUpdate", "findByIdAndUpdateWithAudit"}
OneUpdates   == {"findOneAndUpdate", "findOneAndUpdateWithAudit"}
ManyUpdates  == {"updateMany", "updateManyWithAudit"}

Changed(st1, st2) == {i \in Ids : st1[i] # st2[i]}

\* C8 as stated: the generic updates, softDeleteMany and the audited updates
\* leave every soft-deleted record as it is and count only live records.
C8_UpdatesLiveOnly ==
  [][last'.op \in ByIdUpdates \cup OneUpdates \cup ManyUpdates \cup {"softDeleteMany"}
       => /\ \A i \in Ids : IsDeleted(store[i]) => store'[i] = store[i]
          /\ last'.n <= Cardinality({i \in Ids : IsLive(store[i])})]_vars

Stamped(d, by) == by # NoKey => d.updatedBy = by

\* C8 as amended: the generic updates, softDeleteMany and the audited updates
\* do not filter by deletion state: they update the record with the given
\* id, the first record or every record the caller's filter selects, live
\* or soft-deleted alike, and the count returned by the bulk methods is the
\* number of records changed, soft-deleted ones included.
C8_UpdatesReachDeleted ==
  [][/\ (last'.op \in ByIdUpdates /\ IsDoc(store[last'.id])) =>
          /\ last'.ret._id = last'.id
          /\ last'.ret.cat = last'.u.cat
          /\ Stamped(last'.ret, last'.by)
          /\ store'[last'.id] = last'.ret
     /\ (last'.op \in OneUpdates /\ MatchIds(store, last'.f) # {}) =>
          /\ last'.ret._id \in MatchIds(store, last'.f)
          /\ last'.ret.cat = last'.u.cat
          /\ Stamped(last'.ret, last'.by)
          /\ store'[last'.ret._id] = last'.ret
     /\ last'.op \in ManyUpdates =>
          /\ \A i \in MatchIds(store, last'.f) :
               store'[i].cat = last'.u.cat /\ Stamped(store'[i], last'.by)
          /\ last'.n = Cardinality(Changed(store, store'))
     /\ last'.op = "softDeleteMany" =>
          /\ \A i \in MatchIds(store, last'.f) :
               /\ store'[i].deletedAt = clock'
               /\ last'.by # NoKey => store'[i].deletedBy = last'.by
          /\ last'.n = Cardinality(Changed(store, store'))]_vars

C8_Witness ==
  /\ last.op = "updateManyWithAudit" /\ last.by \in Actors /\ last.n = 1
  /\ \E i \in Ids :
       /\ IsDeleted(store[i])
       /\ store[i].updatedBy = last.by
       /\ store[i].cat = last.u.cat
       /\ Stored(store) = {i}

\* life-cycle state of an id: NEW (not yet assigned), LIVE, DELETED, GONE
RecState(st, nid, i) ==
  IF i >= nid THEN "NEW"
  ELSE IF st[i] = NoDoc THEN "GONE"
  ELSE IF st[i].deletedAt = NullDate THEN "LIVE" ELSE "DELETED"

Transitions ==
  {<<"NEW", "LIVE">>, <<"LIVE", "DELETED">>, <<"DELETED", "LIVE">>,
   <<"LIVE", "GONE">>, <<"DELETED", "GONE">>}

\* C9: in every step, each id keeps its life-cycle state or moves LIVE to
\* DELETED (by a soft delete), DELETED to LIVE (by a restore), LIVE or
\* DELETED to GONE (by a force delete), or is newly created LIVE; a GONE id
\* stays GONE whatever operation comes later.
C9_LifeCycle ==
  [][\A i \in Ids :
       LET a == RecState(store, nextId, i)
           b == RecState(store', nextId', i)
       IN  /\ a # b => <<a, b>> \in Transitions
           /\ (a = "LIVE" /\ b = "DELETED") =>
                last'.op \in {"softDelete", "softDeleteMany"}
           /\ (a = "DELETED" /\ b = "LIVE") =>
                last'.op \in {"restore", "restoreMany"}
           /\ (b = "GONE" /\ a # "GONE") =>
                last'.op \in {"forceDelete", "forceDeleteMany"}
           /\ a = "GONE" => store'[i] = NoDoc]_vars

C9_Witness ==
  /\ last.op \in {"restore", "softDelete", "findByIdAndUpdate"}
  /\ last.id \in Ids
  /\ RecState(store, nextId, last.id) = "GONE"
  /\ last.ret = NoDoc

\* C10 as stated: a stored id leaves the collection only in a forceDelete or
\* forceDeleteMany.
C10_OnlyForceDeleteRemoves ==
  [][Stored(store) \subseteq Stored(store')
       \/ last'.op \in {"forceDelete", "forceDeleteMany"}]_vars

\* C10 as amended: a stored id leaves the collection only in forceDelete,
\* forceDeleteMany or one of the inherited base deletes findByIdAndDelete,
\* findOneAndDelete and deleteMany; every other operation keeps or grows the
\* set of stored ids.
C10_OnlyDeletesRemove ==
  [][Stored(store) \subseteq Stored(store')
       \/ last'.op \in {"forceDelete", "forceDeleteMany",
                        "findByIdAndDelete", "findOneAndDelete", "deleteMany"}]_vars

C10_Witness ==
  /\ last.op = "findByIdAndDelete" /\ IsDeleted(last.pre)
  /\ last.ret = last.pre
  /\ store[last.id] = NoDoc

\* C11: every result of findAllPaginated echoes the requested page and
\* limit, reports totalPages as the least number of pages of that limit that
\* hold total records, hasNextPage exactly when page < totalPages and
\* hasPrevPage exactly when page > 1.
C11_MetaArithmetic ==
  pag.pc = "done" =>
    LET m == pag.meta
    IN  /\ m.page = pag.page /\ m.limit = pag.limit
        /\ m.total = pag.total
        /\ m.totalPages * m.limit >= m.total
        /\ (m.totalPages - 1) * m.limit < m.total
        /\ m.hasNextPage = (pag.page < m.totalPages)
        /\ m.hasPrevPage = (pag.page > 1)

C11_Witness ==
  /\ pag.pc = "done" /\ pag.limit = 2 /\ pag.page = 1
  /\ pag.meta.total = 1 /\ pag.meta.totalPages = 1
  /\ ~pag.meta.hasNextPage /\ ~pag.meta.hasPrevPage

\* the live records the caller's filter selects
LiveMatch(st, f) == {i \in Ids : Matches(st[i], f) /\ IsLive(st[i])}

\* records of M sorted before record i: created later in the default
\* order, created earlier under { createdAt: 1 }
Before(M, i, sort) ==
  IF sort = "createdAt_asc" THEN {j \in M : j < i} ELSE {j \in M : j > i}

\* C12: with no write between its two reads, findAllPaginated(filter,
\* {page, limit, sort}) over N matching live records returns meta.total = N
\* and min(limit, max(0, N - (page-1)*limit)) records, the k-th of them
\* being the record at position (page-1)*limit + k of the matching records
\* in the requested order, descending creation time when none is requested.
C12_PageWindow ==
  [][Returns("live") =>
       LET M    == LiveMatch(store, pag.caller)
           N    == Cardinality(M)
           skip == (pag.page - 1) * pag.limit
           rest == IF N - skip > 0 THEN N - skip ELSE 0
       IN  /\ pag'.meta.total = N
           /\ Len(pag'.data) = IF pag.limit < rest THEN pag.limit ELSE rest
           /\ \A k \in 1..Len(pag'.data) :
                /\ pag'.data[k]._id \in M
                /\ pag'.data[k] = store[pag'.data[k]._id]
                /\ Cardinality(Before(M, pag'.data[k]._id, pag.sort)) = skip + k - 1]_vars

C12_Witness ==
  /\ pag.pc = "done" /\ pag.mode = "live" /\ ~pag.dirty
  /\ pag.sort = "none" /\ pag.page = 2 /\ pag.limit = 1
  /\ pag.meta.total = 2
  /\ Len(pag.data) = 1 /\ pag.data[1]._id = Min(LiveMatch(store, pag.caller))

\* createdBy of a record created with the actor argument by from entity
\* data d: the actor when one is given, else what the data carries, else
\* the schema default null
CreatedBy(d, by) ==
  IF by # NoKey THEN by ELSE IF d.createdBy # NoKey THEN d.createdBy ELSE NullStr

\* C13: createWithAudit and createManyWithAudit store createdBy = actor on
\* every record they create when an actor is given, and with no actor leave
\* createdBy at what the data carries or the schema default null;
\* createManyWithAudit returns one record per input item, in input order.
C13_CreateStampsActor ==
  /\ last.op = "createWithAudit" =>
        /\ last.ret._id = last.id
        /\ last.ret.cat = last.data[1].cat
        /\ last.ret.createdBy = CreatedBy(last.data[1], last.by)
        /\ store[last.id] = last.ret
  /\ last.op = "createManyWithAudit" =>
        /\ Len(last.docs) = Len(last.data)
        /\ \A k \in 1..Len(last.docs) :
             /\ last.docs[k].cat = last.data[k].cat
             /\ last.docs[k].createdBy = CreatedBy(last.data[k], last.by)
             /\ store[last.docs[k]._id] = last.docs[k]
             /\ \A j \in 1..Len(last.docs) :
                  j < k => last.docs[j]._id < last.docs[k]._id

C13_Witness ==
  /\ last.op = "createManyWithAudit" /\ last.by = "u1"
  /\ Len(last.docs) = 2
  /\ last.docs[1].cat = "b" /\ last.docs[2].cat = "a"
  /\ last.docs[1].createdBy = "u1" /\ last.docs[2].createdBy = "u1"
  /\ store[last.docs[2]._id] = last.docs[2]

\* record d after an audited update with payload u and actor by: the
\* caller's field set, updatedBy set to the actor when one is given,
\* updatedAt set by the schema's timestamps, every other field as it was
Audited(d, u, by) ==
  [d EXCEPT !.cat = IF u.cat # NoKey THEN u.cat ELSE @,
            !.updatedBy = IF by # NoKey THEN by ELSE @,
            !.updatedAt = clock]

\* C14: the audited updates set updatedBy to the actor given on each record
\* they update, apply the caller's update otherwise unchanged and leave
\* createdBy and every record they do not update as they were; with no
\* actor they do what the plain update does with the same payload.
C14_UpdateStampsActor ==
  [][/\ (last'.op = "findByIdAndUpdateWithAudit" /\ IsDoc(store[last'.id])) =>
          /\ store' = [store EXCEPT ![last'.id] = Audited(@, last'.u, last'.by)]
          /\ last'.ret = store'[last'.id]
     /\ (last'.op = "findOneAndUpdateWithAudit" /\ MatchIds(store, last'.f) # {}) =>
          \E i \in MatchIds(store, last'.f) :
            /\ store' = [store EXCEPT ![i] = Audited(@, last'.u, last'.by)]
            /\ last'.ret = store'[i]
     /\ last'.op = "updateManyWithAudit" =>
          store' = [i \in Ids |-> IF Matches(store[i], last'.f)
                                  THEN Audited(store[i], last'.u, last'.by)
                                  ELSE store[i]]
     /\ (last'.op = "findByIdAndUpdateWithAudit" /\ last'.by = NoKey) =>
          store' = findByIdAndUpdate(store, last'.id, last'.u).st
     /\ (last'.op = "findOneAndUpdateWithAudit" /\ last'.by = NoKey) =>
          store' = findOneAndUpdate(store, last'.f, last'.u).st
     /\ (last'.op = "updateManyWithAudit" /\ last'.by = NoKey) =>
          store' = updateMany(store, last'.f, last'.u).st]_vars

C14_Witness ==
  /\ last.op = "updateManyWithAudit" /\ last.by = "u1"
  /\ \E i \in Ids :
       /\ Matches(store[i], last.f)
       /\ store[i].createdBy = "u2"
       /\ store[i].updatedBy = "u1"
       /\ store[i].cat = last.u.cat

\* the step is a call of op: it is not one in which only time passes
Call(op) == last'.op = op /\ clock' = clock

\* record d already has the fields the audited update with payload u and
\* actor by sets
HasFields(d, u, by) ==
  /\ u.cat # NoKey => d.cat = u.cat
  /\ by # NoKey => d.updatedBy = by

\* C15 as stated: updateManyWithAudit returns the number of matched records
\* that do not already have the fields of the stamped update; a matched
\* record that has them contributes 0.
C15_EqualFieldsCountZero ==
  [][Call("updateManyWithAudit") =>
       last'.n = Cardinality({i \in MatchIds(store, last'.f) :
                                ~HasFields(store[i], last'.u, last'.by)})]_vars

\* C15 as amended: updateManyWithAudit returns the number of matched records
\* whose stored document the update changed, the updatedAt that the schema's
\* timestamps set on every update included: a matched record contributes 0
\* only when it already has the fields of the stamped update and its
\* updatedAt is the current time.
C15_CountsModified ==
  [][Call("updateManyWithAudit") =>
       /\ last'.n = Cardinality({i \in MatchIds(store, last'.f) : store'[i] # store[i]})
       /\ last'.n = Cardinality({i \in MatchIds(store, last'.f) :
                                   \/ ~HasFields(store[i], last'.u, last'.by)
                                   \/ store[i].updatedAt # clock})]_vars

C15_Witness ==
  /\ last.op = "updateManyWithAudit" /\ last.by = "u1" /\ last.n = 0
  /\ \E i \in Ids :
       /\ Matches(store[i], last.f)
       /\ HasFields(store[i], last.u, last.by)
       /\ store[i].updatedAt = last.at

\* C16: when restoreMany(filter) is called twice in a row with no other
\* write in between, the second call returns 0 and leaves the collection
\* exactly as the first call left it.
C16_RestoreManyIdempotent ==
  [][(last.op = "restoreMany" /\ Call("restoreMany") /\ last'.f = last.f) =>
       /\ last'.n = 0
       /\ store' = store]_vars

\* C17: in every state reached through create, createWithAudit,
\* createManyWithAudit, softDelete, softDeleteMany, restore and restoreMany,
\* every record with deletedBy set also has deletedAt set.
C17_DeletedByImpliesDeletedAt ==
  \A i \in Ids : store[i].deletedBy # NullStr => store[i].deletedAt # NullDate

C17_Witness ==
  /\ last.op = "restoreMany" /\ last.n = 1
  /\ \E i \in Ids, j \in Ids :
       /\ IsLive(store[i]) /\ store[i].deletedBy = NullStr
       /\ store[i].createdBy \in Actors
       /\ IsDeleted(store[j]) /\ store[j].deletedBy \in DelActors

Creates == {"create", "createWithAudit"}

\* C18 as stated: right after create or createWithAudit returned record r,
\* findById(r.id) returns a record equal to r on every caller-supplied
\* field, and the record is live.
C18_FindByIdEqualsCreated ==
  last.op \in Creates =>
    LET r == last.ret
        d == findById(store, last.id)
    IN  /\ d._id = r._id /\ d.cat = r.cat /\ d.createdBy = r.createdBy
        /\ d.secret = r.secret
        /\ d.deletedAt = NullDate /\ d.deletedBy = NullStr

\* C18 as amended: right after create or createWithAudit returned record r,
\* findById(r.id), inherited or default-filtered, returns r without the
\* fields the schema declares select: false: it equals r on every other
\* caller-supplied field, those fields are what the caller passed, and the
\* record is live.
C18_FindByIdSelectsCreated ==
  last.op \in Creates =>
    LET r == last.ret
        d == findById(store, last.id)
    IN  /\ r._id = last.id
        /\ d = Select(r)
        /\ d = super_findById(store, last.id)
        /\ d.cat = last.data[1].cat
        /\ d.createdBy = CreatedBy(last.data[1], last.by)
        /\ d.secret = NoKey
        /\ d.deletedAt = NullDate /\ d.deletedBy = NullStr

C18_Witness ==
  /\ last.op = "create" /\ last.ret.secret = "s" /\ last.ret.cat = "b"
  /\ findById(store, last.id).cat = "b"
  /\ findById(store, last.id).secret = NoKey
  /\ \E i \in Ids : IsDeleted(store[i])

\* the record a find-and-update call l acts on in store st, 0 when nothing
\* matches
Target(st, l) ==
  IF l.op = "findByIdAndUpdate"
  THEN IF st[l.id] = NoDoc THEN 0 ELSE l.id
  ELSE IF MatchIds(st, l.f) = {} THEN 0 ELSE Min(MatchIds(st, l.f))

\* the call l returned the record as it is after the update, or null when
\* nothing matched
ReturnsUpdated(st, l, st2) ==
  LET i == Target(st, l)
  IN  IF i = 0 THEN l.ret = NoDoc /\ st2 = st
      ELSE /\ l.ret = Select(ApplyUpdate(st[i], l.u))
           /\ l.ret = Select(st2[i])
           /\ l.ret.cat = l.u.cat

FindAndUpdates == {"findByIdAndUpdate", "findOneAndUpdate"}

C20_SingleWinner ==
  LET m == MatchIds(race.st0, race.f)
  IN  (Cardinality(m) = 1 /\ race.order # << >>) =>
        LET i   == Min(m)
            upd == ApplyUpdate(race.st0[i], race.u)
            w   == race.order[1]
            losers == {race.order[k] : k \in 2..Len(race.order)}
        IN  /\ race.ret[w] = Select(upd)
            /\ race.ret[w].cat = race.u.cat
            /\ IF ~Matches(upd, race.f)
               THEN /\ \A c \in losers : race.ret[c] = NoDoc
                    /\ {c \in Callers : race.ret[c] # NoDoc} = {w}
               ELSE \A c \in losers : /\ race.ret[c]._id = i
                                      /\ race.ret[c].cat = race.u.cat
                                      /\ race.ret[c] = Select(store[i])

C20_Witness ==
  /\ race.pending = {} /\ Len(race.order) = MaxCallers
  /\ Cardinality(MatchIds(race.st0, race.f)) = 1
  /\ race.f.cat = "a" /\ race.ret[race.order[1]].cat = "b"
  /\ \A k \in 2..MaxCallers : race.ret[race.order[k]] = NoDoc
  /\ \E i \in Ids : race.st0[i].cat = "a" /\ store[i].cat = "b"
  /\ \E i \in Ids : IsDoc(store[i]) /\ store[i] = race.st0[i]

ByIdWrites   == {"findByIdAndUpdate", "findByIdAndDelete", "softDelete",
                 "restore", "forceDelete"}
ByOneWrites  == {"findOneAndUpdate", "findOneAndDelete"}
ByManyWrites == {"updateMany", "deleteMany"}

\* C21: absence is never an error. A write by id on an id no record has,
\* and a find-one-and-update/delete whose filter matches nothing, return
\* null; updateMany and deleteMany return 0 when nothing matches; in each
\* case the collection is left unchanged. findById and findOne return null
\* and findAll returns the empty sequence when nothing matches (read with
\* the filter of the call just made, after that call).
C21_AbsenceIsNull ==
  [][/\ (last'.op \in ByIdWrites /\ store[last'.id] = NoDoc) =>
          last'.ret = NoDoc /\ store' = store
     /\ (last'.op \in ByOneWrites /\ MatchIds(store, last'.f) = {}) =>
          last'.ret = NoDoc /\ store' = store
     /\ (last'.op \in ByManyWrites /\ MatchIds(store, last'.f) = {}) =>
          last'.n = 0 /\ store' = store
     /\ \A i \in Ids :
          /\ store'[i] = NoDoc => super_findById(store', i) = NoDoc
          /\ ~IsLive(store'[i]) => findById(store', i) = NoDoc
     /\ LET f == last'.f IN
          /\ MatchIds(store', f) = {} =>
               /\ super_findOne(store', f) = NoDoc
               /\ super_findAll(store', f, NoOptions) = << >>
          /\ MatchIds(store', WithLive(f)) = {} =>
               /\ findOne(store', f) = NoDoc
               /\ findAll(store', f, NoOptions) = << >>]_vars

C21_Witness ==
  /\ last.op = "findOneAndDelete" /\ last.f.cat = "a"
  /\ last.ret = NoDoc /\ last.n = 0
  /\ \E i \in Ids : IsLive(store[i])
  /\ \E i \in Ids : IsDeleted(store[i])
  /\ findAll(store, last.f, NoOptions) = << >>

\* C22: exists(f) is true exactly when count(f) > 0 in the same
\* visibility mode: exists(f) = (count(f) > 0), both over live records
\* only, existsWithDeleted(f) = (countWithDeleted(f) > 0), and the
\* inherited exists equals the inherited count > 0.
C22_ExistsIffCountPositive ==
  \A f \in ReadFilters :
    /\ exists(store, f) = (count(store, f) > 0)
    /\ exists(store, f) = (\E i \in MatchIds(store, WithLive(f)) : IsLive(store[i]))
    /\ count(store, f) = Cardinality({i \in MatchIds(store, WithLive(f)) : IsLive(store[i])})
    /\ existsWithDeleted(store, f) = (countWithDeleted(store, f) > 0)
    /\ super_exists(store, f) = (super_count(store, f) > 0)

C22_Witness ==
  \E i, j \in Ids :
    /\ IsLive(store[i]) /\ IsDeleted(store[j])
    /\ exists(store, ById(i)) /\ count(store, EmptyFilter) = 1
    /\ ~exists(store, ById(j)) /\ count(store, ById(j)) = 0
    /\ existsWithDeleted(store, ById(j))
    /\ countWithDeleted(store, EmptyFilter) = 2

\* the step is the one the repository call r makes
Same(r) == store' = r.st /\ last'.ret = r.ret /\ last'.n = r.n

\* C23: every service method is a pass-through. Each step a service write
\* method takes is the step the repository method of the same name takes
\* with the same arguments, with the same result and the same collection
\* after it; each service read returns what the repository read of the same
\* name returns.
C23_ServicePassThrough ==
  [][LET l == last' IN l.rejected = "none" =>
     /\ l.op = "create" => Same(create(store, nextId, l.data[1]))
     /\ l.op = "createMany" =>
          /\ Same(createMany(store, nextId, l.data))
          /\ l.docs = createMany(store, nextId, l.data).docs
     /\ l.op = "findByIdAndUpdate" =>
          Same(findByIdAndUpdateOptions(store, l.id, l.u, l.options))
     /\ l.op = "findOneAndUpdate" =>
          Same(findOneAndUpdateOptions(store, l.f, l.u, l.options))
     /\ l.op = "updateMany" => Same(updateMany(store, l.f, l.u))
     /\ l.op = "findByIdAndDelete" => Same(findByIdAndDelete(store, l.id))
     /\ l.op = "findOneAndDelete" => Same(findOneAndDelete(store, l.f))
     /\ l.op = "deleteMany" => Same(deleteMany(store, l.f))
     /\ l.op = "softDelete" => Same(softDelete(store, l.id, l.by, clock))
     /\ l.op = "softDeleteMany" => Same(softDeleteMany(store, l.f, l.by, clock))
     /\ l.op = "restore" => Same(restore(store, l.id))
     /\ l.op = "restoreMany" => Same(restoreMany(store, l.f))
     /\ l.op = "forceDelete" => Same(forceDelete(store, l.id))
     /\ l.op = "forceDeleteMany" => Same(forceDeleteMany(store, l.f))
     /\ l.op = "createWithAudit" =>
          Same(createWithAudit(store, nextId, l.data[1], l.by))
     /\ l.op = "createManyWithAudit" =>
          /\ Same(createManyWithAudit(store, nextId, l.data, l.by))
          /\ l.docs = createManyWithAudit(store, nextId, l.data, l.by).docs
     /\ l.op = "findByIdAndUpdateWithAudit" =>
          Same(findByIdAndUpdateWithAudit(store, l.id, l.u, l.by))
     /\ l.op = "findOneAndUpdateWithAudit" =>
          Same(findOneAndUpdateWithAudit(store, l.f, l.u, l.by))
     /\ l.op = "updateManyWithAudit" =>
          Same(updateManyWithAudit(store, l.f, l.u, l.by))
     /\ \A i \in Ids : AuditableService("findById", store', [NoArgs EXCEPT !.id = i]) = findById(store', i)
     /\ AuditableService("findOne", store', [NoArgs EXCEPT !.f = l.f]) = findOne(store', l.f)
     /\ AuditableService("findAll", store', [NoArgs EXCEPT !.f = l.f]) = findAll(store', l.f, NoOptions)
     /\ AuditableService("count", store', [NoArgs EXCEPT !.f = l.f]) = count(store', l.f)
     /\ AuditableService("exists", store', [NoArgs EXCEPT !.f = l.f]) = exists(store', l.f)
     /\ AuditableService("findAllWithDeleted", store', [NoArgs EXCEPT !.f = l.f])
          = findAllWithDeleted(store', l.f, NoOptions)
     /\ AuditableService("findAllOnlyDeleted", store', [NoArgs EXCEPT !.f = l.f])
          = findAllOnlyDeleted(store', l.f, NoOptions)
     /\ AuditableService("countWithDeleted", store', [NoArgs EXCEPT !.f = l.f]) = countWithDeleted(store', l.f)
     /\ AuditableService("countOnlyDeleted", store', [NoArgs EXCEPT !.f = l.f]) = countOnlyDeleted(store', l.f)
     /\ AuditableService("existsWithDeleted", store', [NoArgs EXCEPT !.f = l.f]) = existsWithDeleted(store', l.f)
     /\ AuditableService("findAllPaginated", store', [NoArgs EXCEPT !.f = l.f])
          = findAllPaginated(store', l.f, 1, MaxLimit, "none")
     /\ AuditableService("findAllPaginatedWithDeleted", store', [NoArgs EXCEPT !.f = l.f])
          = findAllPaginatedWithDeleted(store', l.f, 1, MaxLimit, "none")
     /\ AuditableService("findAllPaginatedOnlyDeleted", store', [NoArgs EXCEPT !.f = l.f])
          = findAllPaginatedOnlyDeleted(store', l.f, 1, MaxLimit, "none")]_vars

C23_Witness ==
  /\ last.op = "updateManyWithAudit" /\ last.by = "u1" /\ last.n = 2
  /\ \E i \in Ids : IsDeleted(store[i]) /\ store[i].updatedBy = "u1"
                                        /\ store[i].cat = "b"
  /\ \E i \in Ids : IsLive(store[i]) /\ store[i].updatedBy = "u1"
  /\ AuditableService("countOnlyDeleted", store, NoArgs) = 1

C25_ConsistentWithoutWrite ==
  [][(pag.pc = "called" /\ pag'.pc = "done" /\ ~pag.dirty) =>
       LET o == QueryOptions(pag.page, pag.limit, pag.sort)
           n == super_count(store, pag.filter)
           rest == n - (pag.page - 1) * pag.limit
       IN  /\ pag'.data = super_findAll(store, pag.filter, o)
           /\ pag'.meta.total = n
           /\ Len(pag'.data) = IF rest <= 0 THEN 0
                                ELSE IF rest < pag.limit THEN rest ELSE pag.limit]_vars

C25_Witness ==
  /\ pag.pc = "done" /\ pag.dirty
  /\ pag.page = 1
  /\ Len(pag.data) > pag.meta.total
  /\ last.op = "forceDelete" /\ IsLive(last.ret)

\* C26: for every filter that does not mention deletedAt, in every
\* reachable state, the three visibility modes partition the matching
\* records: findAll(f) and findAllOnlyDeleted(f) are disjoint, together
\* they are findAllWithDeleted(f), and
\* countWithDeleted(f) = count(f) + countOnlyDeleted(f).
C26_ModesPartition ==
  \A f \in {g \in ReadFilters : g.deletedAt = DelAny} :
    LET live == findAll(store, f, NoOptions)
        gone == findAllOnlyDeleted(store, f, NoOptions)
        all  == findAllWithDeleted(store, f, NoOptions)
    IN  /\ IdsOf(live) \cap IdsOf(gone) = {}
        /\ Range(live) \cap Range(gone) = {}
        /\ Range(live) \cup Range(gone) = Range(all)
        /\ Len(live) + Len(gone) = Len(all)
        /\ countWithDeleted(store, f) = count(store, f) + countOnlyDeleted(store, f)
        /\ count(store, f) = Len(live)
        /\ countOnlyDeleted(store, f) = Len(gone)

C26_Witness ==
  \E c \in Cats :
    LET f == [EmptyFilter EXCEPT !.cat = c]
    IN  /\ count(store, f) = 1 /\ countOnlyDeleted(store, f) = 1
        /\ countWithDeleted(store, f) = 2
        /\ Len(findAllWithDeleted(store, f, NoOptions)) = 2

\* C27: the visibility predicate is combined with the caller's filter by
\* AND: for every caller filter, one that itself constrains deletedAt
\* included, findAll(f) and findAllOnlyDeleted(f) return only records that
\* satisfy f, and count(f) and countOnlyDeleted(f) count only such records.
C27_CallerFilterKept ==
  \A f \in ReadFilters :
    /\ \A d \in Range(findAll(store, f, NoOptions)) : Matches(store[d._id], f)
    /\ \A d \in Range(findAllOnlyDeleted(store, f, NoOptions)) :
         Matches(store[d._id], f)
    /\ count(store, f)
         = Cardinality({i \in MatchIds(store, f) : IsLive(store[i])})
    /\ countOnlyDeleted(store, f)
         = Cardinality({i \in MatchIds(store, f) : IsDeleted(store[i])})

\* C28: the deletedBy of a soft-deleted record names the actor passed to
\* the soft-delete call that set its current deletedAt, and is null when
\* that call was given no actor: every record a softDelete or
\* softDeleteMany call stamps has, after the call, the call's actor as
\* deletedBy, or null.
C28_DeletedByOfLastSoftDelete ==
  [][\A i \in Ids :
       (\/ Call("softDelete") /\ last'.id = i /\ IsDoc(store[i])
        \/ Call("softDeleteMany") /\ Matches(store[i], last'.f)) =>
         /\ store'[i].deletedAt = clock
         /\ store'[i].deletedBy = IF last'.by = NoKey THEN NullStr ELSE last'.by]_vars

\* C29: for any interleaving of concurrent createUser calls with the same
\* email, at most one call creates a user record, every other call that
\* has ended failed with 'User already exists', and the collection never
\* holds two user records with the same email.
C29_OneCreatesOthersExist ==
  /\ Cardinality({c \in Callers : reg.res[c] = "created"}) <= 1
  /\ \A c \in Callers :
       reg.pc[c] = "done" => reg.res[c] \in {"created", "User already exists"}
  /\ \A i, j \in Ids : (i # j /\ IsDoc(store[i]) /\ IsDoc(store[j]))
                          => store[i].cat # store[j].cat

====
